---- MODULE Spec2Model ----
(***************************************************************************)
(* A model of commands/stack_outputs.py: the multi-account collection of   *)
(* CloudFormation stack outputs.  The module's three entry points are      *)
(* modelled: run() (the orchestrator), with_retries() (the retrying,       *)
(* paginating caller) and filter_by_name() (the stack filter).  The remote *)
(* service is the environment: each call or page fetch either returns a    *)
(* page or raises a ClientError, chosen nondeterministically.              *)
(***************************************************************************)
EXTENDS Integers, Sequences, FiniteSets, TLC

\* ------------------------------------------------------------------ bounds
MaxProfiles == 2    \* longest --profiles list
MaxPages == 2       \* most pages the paginator yields in one attempt
MaxRetries == 2     \* largest max_retries passed to with_retries directly
MaxStacks == 2      \* longest stack list passed to filter_by_name directly

\* ------------------------------------------------------- program constants
CollectRetries == 1     \* collect() calls with_retries(1, ...)
ExitFailure == -1       \* print_summary: exit(-1)

\* ------------------------------------------------------------- value sets
ProfileNames == {"a", "b"}

\* Python's None.  Dicts are records; a key a dict lacks is a field the
\* record lacks.
None == [NoneType |-> TRUE]

\* Stack names and prefixes are strings, modelled as sequences of characters.
StackA == [StackName |-> <<"p", "a">>, Outputs |-> <<"Url">>]
StackB == [StackName |-> <<"p">>]
StackC == [StackName |-> <<"q", "p">>, Outputs |-> <<"Arn">>]
StackD == [Outputs |-> <<"Id">>]
StackUniverse == {StackA, StackB, StackC, StackD}

Prefixes == {<< >>, <<"p">>, <<"p", "a">>, <<"q">>}
Targets == {<< >>, <<"p">>}

\* The Stacks field of one response page.
PageStacks == {<< >>, <<StackA>>, <<StackC>>, <<StackB, StackA>>}

\* botocore.exceptions.ClientError instances the service can raise.
ClientErrors == {[cls |-> "ClientError", msg |-> "AccessDenied"],
                 [cls |-> "ClientError", msg |-> "Throttling"]}

\* The fields of a response that hold a list (isinstance(data[k], list)).
ListFields == {"Stacks"}

SeqsUpTo(S, n) == UNION {[1..k -> S] : k \in 0..n}

VARIABLES
    entry,          \* which function of the module was called
    pc,             \* position in the code
    \* run()
    profiles, target, clean, dirExists, file, idx, outcome, exitCode,
    summary_out,
    dirAtStart,     \* whether the report directory existed when run() began
    \* with_retries()
    max_retries, can_paginate, retry, data, ret,
    \* filter_by_name()
    stacks, target_prefix, targets,
    \* history
    calls, attempts, raised, writes

vars == <<entry, pc, profiles, target, clean, dirExists, file, idx, outcome,
          exitCode, summary_out, max_retries, can_paginate, retry, data, ret,
          stacks, target_prefix, targets, calls, attempts, raised, writes,
          dirAtStart>>

runVars == <<profiles, target, clean, dirExists, file, idx, outcome, exitCode,
             summary_out, calls, writes, dirAtStart>>
filterVars == <<stacks, target_prefix, targets>>

\* ------------------------------------------------------- pure functions

\* dict.get(key, default)
Get(d, key, default) == IF key \in DOMAIN d THEN d[key] ELSE default

\* A test for the prefix anywhere in the name ("prefix in name").
startswith_anywhere(name, prefix) ==
    \E i \in 1..(Len(name) + 1) :
        /\ i + Len(prefix) - 1 <= Len(name)
        /\ SubSeq(name, i, i + Len(prefix) - 1) = prefix

\* str.startswith(prefix), character by character
RECURSIVE startswith(_, _)
startswith(name, prefix) ==
    IF prefix = << >> THEN TRUE
    ELSE IF name = << >> THEN FALSE
    ELSE Head(name) = Head(prefix) /\ startswith(Tail(name), Tail(prefix))

\* filter_by_name: list(filter(lambda stack: stack.get('StackName', '')
\*                                  .startswith(target_prefix), stacks))
RECURSIVE filter_by_name(_, _)
filter_by_name(L, P) ==
    IF L = << >> THEN << >>
    ELSE IF startswith(Get(Head(L), "StackName", << >>), P)
         THEN <<Head(L)>> \o filter_by_name(Tail(L), P)
         ELSE filter_by_name(Tail(L), P)

\* str(exception)
str(e) == e.msg

\* "if not data": None (and the empty dict, which no response is) is falsy.
Truthy(d) == d # None

\* A merge that keeps only the latest page's lists.
merge_page_overwrite(d, response) ==
    IF ~Truthy(d) THEN response
    ELSE [k \in DOMAIN d |-> IF k \in ListFields THEN response[k] ELSE d[k]]

\* The page loop's body: the first page becomes data; a later page's list
\* fields are appended to data's, the other fields of data stay.
merge_page(d, response) ==
    IF ~Truthy(d) THEN response
    ELSE [k \in DOMAIN d |->
            IF k \in ListFields THEN d[k] \o response[k] ELSE d[k]]

\* A collect() that takes the last matching stack.
collect_result_last(response, target_name) ==
    LET target_stacks == IF "Stacks" \in DOMAIN response
                         THEN filter_by_name(response.Stacks, target_name)
                         ELSE << >>
    IN  IF target_stacks # << >>
        THEN [outputs |-> Get(target_stacks[Len(target_stacks)],
                              "Outputs", << >>)]
        ELSE IF "exception" \in DOMAIN response
        THEN [exception |-> str(response.exception)]
        ELSE None

\* collect(), from the value with_retries returned
collect_result(response, target_name) ==
    LET target_stacks == IF "Stacks" \in DOMAIN response
                         THEN filter_by_name(response.Stacks, target_name)
                         ELSE << >>
    IN  IF target_stacks # << >>
        THEN [outputs |-> Get(Head(target_stacks), "Outputs", << >>)]
        ELSE IF "exception" \in DOMAIN response
        THEN [exception |-> str(response.exception)]
        ELSE None

\* The report is a dict: a sequence of key/value entries in insertion order.
Keys(d) == {d[i].k : i \in DOMAIN d}
Lookup(d, key) == (CHOOSE i \in DOMAIN d : d[i].k = key)
DictGet(d, key) == d[Lookup(d, key)].v
\* A store that keeps the first value written under a key.
DictSet_keep_first(d, key, value) ==
    IF key \in Keys(d) THEN d ELSE Append(d, [k |-> key, v |-> value])

\* outcome[profile] = response
DictSet(d, key, value) ==
    IF key \in Keys(d)
    THEN [d EXCEPT ![Lookup(d, key)] = [k |-> key, v |-> value]]
    ELSE Append(d, [k |-> key, v |-> value])

\* print_summary's first loop: the failures, in the dict's order
RECURSIVE failures_of(_)
failures_of(summary) ==
    IF summary = << >> THEN << >>
    ELSE (IF "exception" \in DOMAIN Head(summary).v
          THEN <<Head(summary).v.exception>> ELSE << >>)
         \o failures_of(Tail(summary))

\* summary[profile].get(...) raises AttributeError on a None value
summary_raises(summary) == \E i \in DOMAIN summary : summary[i].v = None

\* What print_summary prints
summary_lines(summary) ==
    LET failures == failures_of(summary)
    IN  IF summary_raises(summary) THEN <<[text |-> "----"]>>
        ELSE <<[text |-> "----"],
               [text |-> "Summary", total |-> Len(summary),
                errors |-> Len(failures)]>>
             \o (IF Len(failures) > 0
                 THEN <<[text |-> "Failures:"]>>
                      \o [i \in 1..Len(failures) |-> [text |-> failures[i]]]
                 ELSE << >>)

\* The process exit status print_summary leaves: an uncaught AttributeError
\* ends the interpreter with status 1, exit(-1) with ExitFailure.
summary_exit(summary) ==
    IF summary_raises(summary) THEN 1
    ELSE IF Len(failures_of(summary)) > 0 THEN ExitFailure
    ELSE 0

\* json.dumps(contents, sort_keys=True, ...): the document is the mapping,
\* whatever the insertion order.
json_dumps(contents) == [key \in Keys(contents) |-> DictGet(contents, key)]

NoFile == [state |-> "absent"]
StaleFile == [state |-> "stale"]

\* The pages fetched so far in the attempt under way, and the number of
\* attempts started.
fetched == IF attempts = << >> THEN << >> ELSE attempts[Len(attempts)]
started == Len(attempts)

\* ------------------------------------------------------------ initial states

NoRun ==
    /\ profiles = << >> /\ target = << >> /\ clean = FALSE
    /\ dirExists = FALSE /\ file = NoFile /\ idx = 0 /\ outcome = << >>
    /\ exitCode = 0 /\ summary_out = << >> /\ calls = << >> /\ writes = 0
    /\ dirAtStart = FALSE
NoCall ==
    /\ max_retries = 0 /\ can_paginate = FALSE /\ retry = 0 /\ data = None
    /\ ret = None /\ attempts = << >> /\ raised = << >>
NoFilter ==
    /\ stacks = << >> /\ target_prefix = << >> /\ targets = << >>

\* run(arguments), after the arguments are parsed (lines 169-177)
InitRun ==
    /\ entry = "run" /\ pc = "run_clean"
    /\ profiles \in SeqsUpTo(ProfileNames, MaxProfiles) \ {<< >>}
    /\ target \in Targets
    /\ clean \in BOOLEAN
    /\ dirExists \in BOOLEAN
    /\ dirAtStart = dirExists
    /\ file = IF dirExists THEN StaleFile ELSE NoFile
    /\ idx = 0 /\ outcome = << >> /\ exitCode = 0 /\ summary_out = << >>
    /\ calls = << >> /\ writes = 0
    /\ NoCall /\ NoFilter

\* with_retries(max_retries, handler, method_to_call, parameters), line 47
InitWithRetries ==
    /\ entry = "with_retries" /\ pc = "wr_loop"
    /\ max_retries \in 0..MaxRetries
    /\ can_paginate \in BOOLEAN
    /\ retry = 0 /\ data = None /\ ret = None
    /\ attempts = << >> /\ raised = << >>
    /\ NoRun /\ NoFilter

\* filter_by_name(stacks, target_prefix)
InitFilter ==
    /\ entry = "filter_by_name" /\ pc = "filter"
    /\ stacks \in SeqsUpTo(StackUniverse, MaxStacks)
    /\ target_prefix \in Prefixes
    /\ targets = << >>
    /\ NoRun /\ NoCall

Init == InitRun \/ InitWithRetries \/ InitFilter

\* ------------------------------------------------------------------ run()

\* A clean step that does not look at the --clean flag.
Clean_always ==
    /\ pc = "run_clean"
    /\ dirExists' = FALSE
    /\ file' = NoFile
    /\ outcome' = << >>
    /\ pc' = "run_loop"
    /\ UNCHANGED <<entry, profiles, target, clean, dirAtStart, idx, exitCode,
                   summary_out, calls, writes, max_retries, can_paginate,
                   retry, data, ret, attempts, raised>>
    /\ UNCHANGED filterVars

\* lines 178-182: rmtree(path) when --clean and the directory exists
Clean ==
    /\ pc = "run_clean"
    /\ dirExists' = IF clean /\ dirExists THEN FALSE ELSE dirExists
    /\ file' = IF clean /\ dirExists THEN NoFile ELSE file
    /\ outcome' = << >>
    /\ pc' = "run_loop"
    /\ UNCHANGED <<entry, profiles, target, clean, dirAtStart, idx, exitCode, summary_out,
                   calls, writes, max_retries, can_paginate, retry, data, ret,
                   attempts, raised>>
    /\ UNCHANGED filterVars

\* lines 184-186 and 102-105: the loop takes the next profile, collect()
\* makes a client and calls with_retries(1, cfn_client, 'describe_stacks', {})
CollectCall ==
    /\ pc = "run_loop" /\ idx < Len(profiles)
    /\ max_retries' = CollectRetries
    /\ can_paginate' \in BOOLEAN
    /\ retry' = 0 /\ data' = None /\ ret' = None
    /\ attempts' = << >> /\ raised' = << >>
    /\ pc' = "wr_loop"
    /\ UNCHANGED <<entry>>
    /\ UNCHANGED runVars
    /\ UNCHANGED filterVars

\* A loop body that also saves the report after each profile.
CollectReturn_saving ==
    /\ pc = "wr_ret" /\ entry = "run"
    /\ LET profile == profiles[idx + 1]
           response == collect_result(ret, target)
       IN  /\ outcome' = DictSet(outcome, profile, response)
           /\ calls' = Append(calls, [profile |-> profile,
                                      response |-> response,
                                      raised |-> raised])
    /\ idx' = idx + 1
    /\ dirExists' = TRUE
    /\ file' = [state |-> "written", contents |-> json_dumps(outcome')]
    /\ writes' = writes + 1
    /\ pc' = "run_loop"
    /\ UNCHANGED <<entry, profiles, target, clean, dirAtStart, exitCode, summary_out,
                   max_retries, can_paginate, retry, data, ret, attempts,
                   raised>>
    /\ UNCHANGED filterVars

\* lines 106-119 and 187: collect() turns with_retries' value into its
\* result, run() stores it under the profile
CollectReturn ==
    /\ pc = "wr_ret" /\ entry = "run"
    /\ LET profile == profiles[idx + 1]
           response == collect_result(ret, target)
       IN  /\ outcome' = DictSet(outcome, profile, response)
           /\ calls' = Append(calls, [profile |-> profile,
                                      response |-> response,
                                      raised |-> raised])
    /\ idx' = idx + 1
    /\ pc' = "run_loop"
    /\ UNCHANGED <<entry, profiles, target, clean, dirAtStart, dirExists, file, exitCode,
                   summary_out, writes, max_retries, can_paginate, retry,
                   data, ret, attempts, raised>>
    /\ UNCHANGED filterVars

\* A run() that checks for failures, and exits, before it saves the report.
WriteReport_unless_failed ==
    /\ pc = "run_loop" /\ idx = Len(profiles)
    /\ IF Len(failures_of(outcome)) > 0
       THEN /\ exitCode' = ExitFailure
            /\ pc' = "done"
            /\ UNCHANGED <<dirExists, file, writes>>
       ELSE /\ dirExists' = TRUE
            /\ file' = [state |-> "written", contents |-> json_dumps(outcome)]
            /\ writes' = writes + 1
            /\ pc' = "run_summary"
            /\ UNCHANGED exitCode
    /\ UNCHANGED <<entry, profiles, target, clean, dirAtStart, idx, outcome,
                   summary_out, calls, max_retries, can_paginate, retry, data,
                   ret, attempts, raised>>
    /\ UNCHANGED filterVars

\* lines 190-193: make_directory twice, then write_file(outcome, ...)
WriteReport ==
    /\ pc = "run_loop" /\ idx = Len(profiles)
    /\ dirExists' = TRUE
    /\ file' = [state |-> "written", contents |-> json_dumps(outcome)]
    /\ writes' = writes + 1
    /\ pc' = "run_summary"
    /\ UNCHANGED <<entry, profiles, target, clean, dirAtStart, idx, outcome, exitCode,
                   summary_out, calls, max_retries, can_paginate, retry, data,
                   ret, attempts, raised>>
    /\ UNCHANGED filterVars

\* line 194 and print_summary, to the end of the process
PrintSummary ==
    /\ pc = "run_summary"
    /\ summary_out' = summary_lines(outcome)
    /\ exitCode' = summary_exit(outcome)
    /\ pc' = "done"
    /\ UNCHANGED <<entry, profiles, target, clean, dirAtStart, dirExists, file, idx,
                   outcome, calls, writes, max_retries, can_paginate, retry,
                   data, ret, attempts, raised>>
    /\ UNCHANGED filterVars

\* --------------------------------------------------------- with_retries()

\* line 50-53, 64: the attempt loop starts its next attempt
StartAttempt ==
    /\ pc = "wr_loop" /\ retry < max_retries
    /\ attempts' = Append(attempts, << >>)
    /\ pc' = IF can_paginate THEN "wr_page" ELSE "wr_call"
    /\ UNCHANGED <<entry, max_retries, can_paginate, retry, data, ret, raised>>
    /\ UNCHANGED runVars
    /\ UNCHANGED filterVars

\* lines 55-62: the paginator yields a page, the loop body merges it; a page
\* with no NextToken is the last of the attempt
FetchPage ==
    /\ pc = "wr_page"
    /\ \E s \in PageStacks, more \in BOOLEAN :
         /\ more => Len(fetched) + 1 < MaxPages
         /\ LET response == [Stacks |-> s, NextToken |-> more]
            IN  /\ data' = merge_page(data, response)
                /\ attempts' = [attempts EXCEPT ![Len(attempts)] =
                                                Append(@, response)]
         /\ retry' = IF more THEN retry ELSE retry + 1
         /\ pc' = IF more THEN "wr_page" ELSE "wr_loop"
    /\ UNCHANGED <<entry, max_retries, can_paginate, ret, raised>>
    /\ UNCHANGED runVars
    /\ UNCHANGED filterVars

\* lines 64-65: the single call of an operation that cannot paginate
SingleCall ==
    /\ pc = "wr_call"
    /\ \E s \in PageStacks :
         LET response == [Stacks |-> s, NextToken |-> FALSE]
         IN  /\ data' = response
             /\ attempts' = [attempts EXCEPT ![Len(attempts)] =
                                                Append(@, response)]
    /\ retry' = retry + 1
    /\ pc' = "wr_loop"
    /\ UNCHANGED <<entry, max_retries, can_paginate, ret, raised>>
    /\ UNCHANGED runVars
    /\ UNCHANGED filterVars

\* No handler: the error leaves with_retries and ends the caller.
RaiseClientError_propagating ==
    /\ pc \in {"wr_page", "wr_call"}
    /\ \E e \in ClientErrors : raised' = <<e>>
    /\ exitCode' = 1
    /\ pc' = "done"
    /\ UNCHANGED <<entry, max_retries, can_paginate, retry, data, ret,
                   attempts, profiles, target, clean, dirAtStart, dirExists, file, idx,
                   outcome, summary_out, calls, writes>>
    /\ UNCHANGED filterVars

\* A handler inside the attempt loop: the error is noted and the next
\* attempt starts.
RaiseClientError_retrying ==
    /\ pc \in {"wr_page", "wr_call"}
    /\ \E e \in ClientErrors :
         /\ raised' = <<e>>
         /\ data' = [exception |-> e]
    /\ retry' = retry + 1
    /\ pc' = "wr_loop"
    /\ UNCHANGED <<entry, max_retries, can_paginate, ret, attempts>>
    /\ UNCHANGED runVars
    /\ UNCHANGED filterVars

\* A handler that adds the error to the pages merged so far.
RaiseClientError_partial ==
    /\ pc \in {"wr_page", "wr_call"}
    /\ \E e \in ClientErrors :
         /\ raised' = <<e>>
         /\ ret' = IF Truthy(data)
                   THEN [Stacks |-> data.Stacks, NextToken |-> data.NextToken,
                         exception |-> e]
                   ELSE [exception |-> e]
    /\ pc' = "wr_ret"
    /\ UNCHANGED <<entry, max_retries, can_paginate, retry, data, attempts>>
    /\ UNCHANGED runVars
    /\ UNCHANGED filterVars

\* lines 67-71: a page fetch or the call raises ClientError; the handler
\* returns the failure dict
RaiseClientError ==
    /\ pc \in {"wr_page", "wr_call"}
    /\ \E e \in ClientErrors :
         /\ raised' = <<e>>
         /\ ret' = [exception |-> e]
    /\ pc' = "wr_ret"
    /\ UNCHANGED <<entry, max_retries, can_paginate, retry, data, attempts>>
    /\ UNCHANGED runVars
    /\ UNCHANGED filterVars

\* A loop that stops retrying once an attempt has produced data.
ReturnData_after_success ==
    /\ pc = "wr_loop" /\ (retry >= max_retries \/ Truthy(data))
    /\ ret' = data
    /\ pc' = "wr_ret"
    /\ UNCHANGED <<entry, max_retries, can_paginate, retry, data, attempts,
                   raised>>
    /\ UNCHANGED runVars
    /\ UNCHANGED filterVars

\* line 73: the attempt loop is over, return data
ReturnData ==
    /\ pc = "wr_loop" /\ retry >= max_retries
    /\ ret' = data
    /\ pc' = "wr_ret"
    /\ UNCHANGED <<entry, max_retries, can_paginate, retry, data, attempts, raised>>
    /\ UNCHANGED runVars
    /\ UNCHANGED filterVars

\* with_retries called directly: the value is handed to the caller
WithRetriesDone ==
    /\ pc = "wr_ret" /\ entry = "with_retries"
    /\ pc' = "done"
    /\ UNCHANGED <<entry, max_retries, can_paginate, retry, data, ret, attempts, raised>>
    /\ UNCHANGED runVars
    /\ UNCHANGED filterVars

\* ------------------------------------------------------- filter_by_name()

FilterByName ==
    /\ pc = "filter"
    /\ targets' = filter_by_name(stacks, target_prefix)
    /\ pc' = "done"
    /\ UNCHANGED <<entry, stacks, target_prefix, max_retries, can_paginate,
                   retry, data, ret, attempts, raised>>
    /\ UNCHANGED runVars

Next ==
    \/ Clean
    \/ CollectCall
    \/ CollectReturn
    \/ WriteReport
    \/ PrintSummary
    \/ StartAttempt
    \/ FetchPage
    \/ SingleCall
    \/ RaiseClientError
    \/ ReturnData
    \/ WithRetriesDone
    \/ FilterByName

Spec == Init /\ [][Next]_vars

\* ------------------------------------------------------------ properties

IsSuccess(r) == DOMAIN r = {"outputs"}
IsFailure(r) == DOMAIN r = {"exception"}
RunOver == entry = "run" /\ pc = "done"

\* C1: run() ends with exit code 0 if every collect() call succeeded (none
\* produced a Failure), and with a nonzero exit code if at least one
\* collect() call produced a Failure.
C1_ExitCode ==
    RunOver =>
        /\ (\A i \in DOMAIN calls : ~IsFailure(calls[i].response))
               => exitCode = 0
        /\ (\E i \in DOMAIN calls : IsFailure(calls[i].response))
               => exitCode # 0

C3_ExactlyOneVariant ==
    /\ \A i \in DOMAIN calls :
          IsSuccess(calls[i].response) \/ IsFailure(calls[i].response)
    /\ \A i \in DOMAIN outcome :
          IsSuccess(outcome[i].v) \/ IsFailure(outcome[i].v)

LastOccurrence(p) == CHOOSE i \in DOMAIN calls :
    /\ calls[i].profile = p
    /\ \A j \in DOMAIN calls : calls[j].profile = p => j <= i

\* C4: the report's keys are the distinct profiles processed, collect() is
\* invoked on the profiles in input order, and a repeated profile holds the
\* result of its last occurrence.
C4_ReportKeysAndOrder ==
    entry = "run" =>
        /\ Len(calls) <= Len(profiles)
        /\ \A i \in DOMAIN calls : calls[i].profile = profiles[i]
        /\ Keys(outcome) = {profiles[i] : i \in 1..Len(calls)}
        /\ Len(outcome) = Cardinality(Keys(outcome))
        /\ \A p \in Keys(outcome) :
              DictGet(outcome, p) = calls[LastOccurrence(p)].response
        /\ pc \in {"run_summary", "done"} =>
              Keys(outcome) = {profiles[i] : i \in DOMAIN profiles}

C4_Witness ==
    /\ entry = "run" /\ pc = "run_summary"
    /\ Len(profiles) = 2
    /\ profiles[1] = profiles[2]
    /\ calls[1].response # calls[2].response
    /\ Len(outcome) = 1

RECURSIVE ConcatStacks(_)
ConcatStacks(pages) ==
    IF pages = << >> THEN << >>
    ELSE Head(pages).Stacks \o ConcatStacks(Tail(pages))

\* C5: with attempt count 1 and no error, a paginated call returns the
\* Stacks of all pages concatenated in page order, and the first page's
\* other fields unchanged.
C5_PaginationMerge ==
    (pc = "wr_ret" /\ can_paginate /\ max_retries = 1 /\ raised = << >>) =>
        /\ ret.Stacks = ConcatStacks(fetched)
        /\ ret.NextToken = fetched[1].NextToken

C5_Witness ==
    /\ pc = "wr_ret" /\ can_paginate /\ max_retries = 1 /\ raised = << >>
    /\ Len(fetched) = 2
    /\ fetched[1].Stacks # << >>
    /\ fetched[2].Stacks # << >>
    /\ fetched[1].Stacks # fetched[2].Stacks

ResultOfAttempt(pages) ==
    [Stacks |-> ConcatStacks(pages), NextToken |-> pages[1].NextToken]

\* C6: for every max_retries >= 1 and no error, with_retries returns the
\* result of one complete attempt (nothing carried over from an earlier
\* attempt), so each page's items appear in it exactly once.
C6_AttemptsFromScratch ==
    (pc = "wr_ret" /\ max_retries >= 1 /\ raised = << >>) =>
        \E a \in DOMAIN attempts : ret = ResultOfAttempt(attempts[a])

FailedProfiles == {p \in Keys(outcome) : IsFailure(DictGet(outcome, p))}

\* C8: the summary reports as total the number of profiles processed and as
\* error count the number of those that yielded a Failure, and prints each
\* Failure message.
C8_SummaryCounts ==
    RunOver =>
        /\ \E i \in DOMAIN summary_out :
              /\ summary_out[i].text = "Summary"
              /\ summary_out[i].total = Cardinality(Keys(outcome))
              /\ summary_out[i].errors = Cardinality(FailedProfiles)
        /\ \A p \in FailedProfiles :
              \E i \in DOMAIN summary_out :
                  summary_out[i].text = DictGet(outcome, p).exception

NameOf(stack) == IF "StackName" \in DOMAIN stack THEN stack.StackName ELSE << >>
HasPrefix(name, prefix) ==
    /\ Len(prefix) <= Len(name)
    /\ \A i \in 1..Len(prefix) : name[i] = prefix[i]
Matching(L, P) == {i \in DOMAIN L : HasPrefix(NameOf(L[i]), P)}

\* C9: filter_by_name(L, P) is exactly the stacks of L whose name starts
\* with P, in their original relative order; the empty prefix returns L.
C9_FilterExact ==
    (entry = "filter_by_name" /\ pc = "done") =>
        /\ Len(targets) = Cardinality(Matching(stacks, target_prefix))
        /\ \E f \in [DOMAIN targets -> Matching(stacks, target_prefix)] :
              /\ \A i, j \in DOMAIN targets : i < j => f[i] < f[j]
              /\ \A i \in DOMAIN targets : targets[i] = stacks[f[i]]
        /\ target_prefix = << >> => targets = stacks

C9_Witness ==
    /\ entry = "filter_by_name" /\ pc = "done"
    /\ target_prefix = <<"p">>
    /\ stacks = <<StackC, StackA>>
    /\ targets = <<StackA>>

\* C10: the report file is written at most once, by the orchestrator's
\* final step, after collect() has returned for every profile; never
\* between two collect() calls.
C10_WriteOnceAtEnd ==
    entry = "run" =>
        /\ writes <= 1
        /\ writes = 1 <=> pc \in {"run_summary", "done"}
        /\ writes = 1 => Len(calls) = Len(profiles)
        /\ file.state = "written" <=> writes = 1
        /\ file.state = "written" => file.contents = json_dumps(outcome)

C10_Witness ==
    /\ RunOver
    /\ writes = 1
    /\ Len(calls) = 2
    /\ file.state = "written"
    /\ DOMAIN file.contents = {"a", "b"}

\* C11: with --clean and an existing report directory, run() removes it
\* before the first collect() call and before any report is written; with no
\* directory the clean step does nothing and is no error; without --clean
\* the directory and its file stay as they were until the final write.
C11_CleanBeforeCollect ==
    entry = "run" =>
        /\ pc = "run_clean" =>
              /\ calls = << >> /\ attempts = << >> /\ writes = 0
              /\ dirExists = dirAtStart
        /\ (pc # "run_clean" /\ writes = 0) =>
              /\ exitCode = 0
              /\ IF clean /\ dirAtStart
                 THEN ~dirExists /\ file = NoFile
                 ELSE /\ dirExists = dirAtStart
                      /\ file = IF dirAtStart THEN StaleFile ELSE NoFile

C11_Witness ==
    /\ entry = "run" /\ pc = "wr_loop"
    /\ clean /\ dirAtStart
    /\ ~dirExists /\ file = NoFile
    /\ calls = << >> /\ started = 0

IsComplete(pages) ==
    /\ pages # << >>
    /\ ~pages[Len(pages)].NextToken
    /\ can_paginate \/ Len(pages) = 1

\* C12: retrying is unconditional: with no error the operation (the whole
\* pagination or the single call) is executed exactly max_retries times; an
\* error raised during attempt k leaves exactly k attempts started.
C12_UnconditionalRetry ==
    (pc \in {"wr_ret", "done"} /\ entry \in {"run", "with_retries"}) =>
        IF raised = << >>
        THEN /\ started = max_retries
             /\ retry = max_retries
             /\ \A a \in DOMAIN attempts : IsComplete(attempts[a])
        ELSE /\ started = retry + 1
             /\ started <= max_retries
             /\ \A a \in 1..retry : IsComplete(attempts[a])

C12_Witness ==
    /\ entry = "with_retries" /\ pc = "wr_ret"
    /\ raised = << >>
    /\ max_retries = 2
    /\ started = 2
    /\ Len(attempts[1]) = 2

FirstMatching(L, P) ==
    CHOOSE i \in Matching(L, P) : \A j \in Matching(L, P) : i <= j

CollectReturned ==
    entry = "run" /\ pc \in {"run_loop", "run_summary", "done"} /\ calls # << >>

\* C13: when describe-stacks succeeds and some stack's name starts with the
\* target prefix, collect() returns Success with the outputs of the first
\* such stack of the merged list (empty if it declares none); later matches
\* are ignored.
C13_FirstMatchingStack ==
    (CollectReturned /\ raised = << >> /\ Matching(ret.Stacks, target) # {}) =>
        LET first == ret.Stacks[FirstMatching(ret.Stacks, target)]
        IN  calls[Len(calls)].response =
                [outputs |-> IF "Outputs" \in DOMAIN first
                             THEN first.Outputs ELSE << >>]

C13_Witness ==
    /\ CollectReturned /\ raised = << >>
    /\ target = <<"p">>
    /\ ret.Stacks = <<StackC, StackB, StackA>>
    /\ calls[Len(calls)].response = [outputs |-> << >>]

\* C14: in a run where a profile yields a Failure, the report with every
\* profile's result is in the report file before the process ends with a
\* nonzero exit code.
C14_ReportBeforeFailureExit ==
    entry = "run" =>
        /\ exitCode # 0 => writes = 1 /\ file.state = "written"
        /\ (pc = "done" /\ \E i \in DOMAIN calls : IsFailure(calls[i].response))
              =>
              /\ file.state = "written"
              /\ DOMAIN file.contents = {profiles[i] : i \in DOMAIN profiles}
              /\ \A p \in DOMAIN file.contents :
                    file.contents[p] = calls[LastOccurrence(p)].response
              /\ FailedProfiles # {} => exitCode # 0

C14_Witness ==
    /\ RunOver
    /\ exitCode = ExitFailure
    /\ file.state = "written"
    /\ DOMAIN file.contents = {"a", "b"}
    /\ IsSuccess(file.contents["a"])
    /\ IsFailure(file.contents["b"])

\* C15: when the error is raised while a second or later page is fetched,
\* with_retries returns the Failure alone, with none of the stacks already
\* fetched, and collect() reports Failure for the profile.
C15_NoPartialPages ==
    (raised # << >> /\ fetched # << >>) =>
        /\ DOMAIN ret = {"exception"}
        /\ ret.exception = raised[1]
        /\ CollectReturned => IsFailure(calls[Len(calls)].response)

C15_Witness ==
    /\ CollectReturned
    /\ raised # << >>
    /\ Len(fetched) = 1
    /\ Matching(fetched[1].Stacks, target) # {}
    /\ IsFailure(calls[Len(calls)].response)

====
